---- MODULE Spec2Model ----
(***************************************************************************)
(* Model of the Gupy job scraper (src/main.py): one invocation crawls the  *)
(* paginated listing site (scrape_gupy), filters the discovered records    *)
(* against the jobs table (is_job_in_db), and posts each new record to the *)
(* Discord webhook (send_to_discord), recording the link on success        *)
(* (add_job_to_db).  The jobs table persists across invocations.           *)
(*                                                                         *)
(* Strings the code inspects are sequences of tokens, so that              *)
(* startswith("http") and concatenation are computed, not assumed.  An     *)
(* optional tag or attribute is a sequence of length 0 (absent) or 1.      *)
(*                                                                         *)
(* Specifications: Spec is the whole script over any number of runs;       *)
(* SpecCrawl (SpecCrawlFair with fairness) is scrape_gupy and the filter   *)
(* on sites of several pages; SpecExtract is the same on one page over     *)
(* every listing of the item shapes; SpecStore is the store calls of two   *)
(* instances of the script on one jobs.db.                                 *)
(***************************************************************************)
EXTENDS Integers, Sequences, FiniteSets, TLC

\* ------------------------------------------------------------------ bounds
\* largest max_pages argument scrape_gupy is run with on its own
MaxCap == 3
\* most <li> items on the page of a site the whole script is run on
MaxItems == 3

\* ------------------------------------------------------------ text values
\* "https://portal.gupy.io" as tokens: the prefix the code tests, then the rest
BaseOrigin == <<"http", "s://portal.gupy.io">>

NaoInformado == <<"Nao informado">>

HrefRel1 == <<"/vaga/1">>
HrefRel2 == <<"/vaga/2">>
HrefRel3 == <<"/vaga/3">>
HrefAbs1 == <<"http", "s://portal.gupy.io", "/vaga/1">>
\* "mailto:rh@empresa.com"
HrefMailto == <<"mailto:", "rh@empresa.com">>
\* "httpd-admin/4", a path relative to the listing page
HrefHttpPath == <<"http", "d-admin/4">>

\* str.startswith("http")
StartsWithHttp(s) == Len(s) >= 1 /\ s[1] = "http"

\* lines 101-103: a link that does not start with "http" gets the origin prefixed
NormalizeLink(href) == IF StartsWithHttp(href) THEN href ELSE BaseOrigin \o href

\* get_text(strip=True): surrounding whitespace tokens are removed
RECURSIVE LStrip(_)
LStrip(s) == IF s # <<>> /\ Head(s) = " " THEN LStrip(Tail(s)) ELSE s

RECURSIVE RStrip(_)
RStrip(s) == IF s # <<>> /\ s[Len(s)] = " " THEN RStrip(SubSeq(s, 1, Len(s) - 1)) ELSE s

GetTextStrip(s) == RStrip(LStrip(s))

\* ------------------------------------------------------------------ items
\* One <li>: h3 is the optional title tag (its text), a is the optional
\* anchor holding an optional href, location and work_model the optional
\* span texts.
Item(h3, a, loc, wm) == [h3 |-> h3, a |-> a, location |-> loc, work_model |-> wm]

ItemDev1 == Item(<< <<" ", "Dev Python", " ">> >>, << <<HrefRel1>> >>, << <<"Sao Paulo">> >>, << <<"Remoto">> >>)
ItemDev2 == Item(<< <<"Data Engineer">> >>, << <<HrefRel2>> >>, <<>>, <<>>)
ItemDev3 == Item(<< <<"Backend">> >>, << <<HrefRel3>> >>, << <<"Recife">> >>, <<>>)
\* the same posting as ItemDev1 under another title and an absolute href
ItemDev1b == Item(<< <<"Dev Python Senior">> >>, << <<HrefAbs1>> >>, <<>>, << <<"Hibrido">> >>)
\* an item whose anchor carries no href
ItemNoHref == Item(<< <<"Sem link">> >>, << <<>> >>, <<>>, <<>>)

\* an item without a title
ItemNoTitle == Item(<<>>, << <<HrefRel2>> >>, << <<"Recife">> >>, <<>>)
\* an item without an anchor
ItemNoAnchor == Item(<< <<"Sem ancora">> >>, <<>>, <<>>, <<>>)

\* an item whose anchor is a mail link
ItemMailto == Item(<< <<"Fale com o RH">> >>, << <<HrefMailto>> >>, <<>>, <<>>)
\* an item whose relative href begins with the letters http
ItemHttpPath == Item(<< <<"Admin Apache">> >>, << <<HrefHttpPath>> >>, << <<"Recife">> >>, << <<"Remoto">> >>)
\* an item whose location span holds nothing but whitespace
ItemBlankLoc == Item(<< <<"Backend">> >>, << <<HrefRel3>> >>, << <<" ">> >>, <<>>)

\* the items of the sites the whole script is run on
PipelineItems == {ItemDev1, ItemDev2, ItemDev3, ItemDev1b}

\* line 100: titulo_tag and link_tag and link_tag.has_attr('href')
WellFormed(it) == it.h3 # <<>> /\ it.a # <<>> /\ it.a[1] # <<>>

\* a dictionary whose optional fields are left empty when the tag is missing
VagaDataNoPlaceholder(it) ==
    [title |-> GetTextStrip(it.h3[1]),
     link |-> NormalizeLink(it.a[1][1]),
     location |-> IF it.location # <<>> THEN GetTextStrip(it.location[1]) ELSE <<>>,
     work_model |-> IF it.work_model # <<>> THEN GetTextStrip(it.work_model[1]) ELSE <<>>]

\* lines 101-113: the dictionary built from one well-formed item
VagaData(it) ==
    [title |-> GetTextStrip(it.h3[1]),
     link |-> NormalizeLink(it.a[1][1]),
     location |-> IF it.location # <<>> THEN GetTextStrip(it.location[1]) ELSE NaoInformado,
     work_model |-> IF it.work_model # <<>> THEN GetTextStrip(it.work_model[1]) ELSE NaoInformado]

\* a loop that ends at the first item it cannot use
RECURSIVE ExtractItemsUntilMalformed(_)
ExtractItemsUntilMalformed(items) ==
    IF items = <<>> \/ ~WellFormed(Head(items)) THEN <<>>
    ELSE <<VagaData(Head(items))>> \o ExtractItemsUntilMalformed(Tail(items))

\* lines 95-114: the records appended for one page, in document order
RECURSIVE ExtractItems(_)
ExtractItems(items) ==
    IF items = <<>> THEN <<>>
    ELSE (IF WellFormed(Head(items)) THEN <<VagaData(Head(items))>> ELSE <<>>)
         \o ExtractItems(Tail(items))

\* ------------------------------------------------------------------- site
\* the listings of at most m items of S
ItemSeqs(S, m) == UNION {[1..n -> S] : n \in 0..m}

\* the page listings of the sites scrape_gupy is run on by itself
CrawlListings ==
    {<<>>, <<ItemDev1>>, <<ItemDev2, ItemNoHref>>, <<ItemNoTitle, ItemDev1b>>,
     <<ItemNoAnchor>>}

\* the items of the pages the extraction loop is run on by itself
ExtractionItems ==
    {ItemDev1, ItemDev2, ItemDev1b, ItemNoHref, ItemNoTitle, ItemNoAnchor,
     ItemMailto, ItemHttpPath, ItemBlankLoc}

\* What the renderer shows for one page: whether the snapshot holds
\* main#main-content and the <ul> inside it, the <li> items, and the state of
\* button[aria-label="Next page"].
PageContents(listings) ==
    {[container |-> "ok", items |-> its] : its \in listings}
    \cup {[container |-> c, items |-> <<>>] : c \in {"no_ul", "no_main"}}

\* A site of n pages: every page before the last has an enabled next-page
\* control, and the last page's control is as `last` says.
MakeSite(n, contents, last) ==
    [k \in 1..n |->
        [container |-> contents[k].container, items |-> contents[k].items,
         next |-> IF k < n THEN "enabled" ELSE last]]

\* The last page's control is disabled or absent; it is enabled only when the
\* site goes on beyond the pages a crawl capped at `cap` can reach.
LastControls(n, cap) ==
    IF n = cap THEN {"enabled", "disabled", "absent"} ELSE {"disabled", "absent"}

\* ------------------------------------------------------------------ state
VARIABLES
    max_pages,          \* scrape_gupy's max_pages argument
    site,               \* the listing site being crawled
    db,                 \* the links in table jobs of jobs.db
    webhook_url,        \* DISCORD_WEBHOOK_URL: <<>> when unset
    rerun,              \* the script has been invoked before on this jobs.db
    pc,                 \* where the invocation stands
    page_count,         \* scrape_gupy's page_count
    vagas_encontradas,  \* scrape_gupy's accumulator
    lista_de_vagas,     \* what scrape_gupy returned
    vagas_novas,        \* the records that passed the filter
    idx,                \* position of the notification loop in vagas_novas
    sucesso_envio,      \* what send_to_discord returned for vagas_novas[idx]
    rendererLog,        \* history: <<page_count, call>> of each renderer call of this run
    crawl_error,        \* history: scrape_gupy went through its except clause
    renderer_failed,    \* history: a renderer call raised in this run
    attempts,           \* history: the send_to_discord calls of this run
    last_call,          \* history: the latest send_to_discord call
    delivered,          \* history: links a POST answered 204 for, over all runs
    sent_ok,            \* history: links with a successful delivery in this run
    sent_fail,          \* history: links with a failed delivery in this run
    db_start,           \* history: db when this run started
    prev_links,         \* history: links the previous run discovered
    jobs_rows,          \* the rows of table jobs two instances write to at once
    write_lock,         \* the instance holding the write lock of jobs.db, or 0
    inst                \* where each of the two instances stands in its store calls

pipelineVars == <<max_pages, site, db, webhook_url, rerun, pc, page_count, vagas_encontradas,
                  lista_de_vagas, vagas_novas, idx, sucesso_envio, rendererLog,
                  crawl_error, renderer_failed, attempts, last_call, delivered,
                  sent_ok, sent_fail, db_start, prev_links>>
storeVars == <<jobs_rows, write_lock, inst>>

vars == <<pipelineVars, storeVars>>

crawlVars == <<page_count, vagas_encontradas, lista_de_vagas, rendererLog,
               crawl_error, renderer_failed>>
notifyVars == <<vagas_novas, idx, sucesso_envio, attempts, last_call,
                sent_ok, sent_fail>>
histVars == <<delivered, db_start, prev_links>>

WebhookUrls == {<<>>, <<"https://discord.com/api/webhooks/x">>}

NoCall == [configured |-> FALSE, posts |-> 0, raised |-> FALSE, status |-> 0, ret |-> FALSE]

Links(records) == {records[k].link : k \in 1..Len(records)}

\* the two invocations of the script that share one jobs.db
Instances == {1, 2}

\* an instance between two store calls; seen and pending are the table as its
\* open transaction read it and as it will write it
IdleInstance == [pc |-> "idle", link |-> <<>>, seen |-> <<>>, pending |-> <<>>, raised |-> FALSE]

InitWith(listings, caps, urls) ==
    /\ max_pages \in caps
    /\ \E n \in 1..max_pages :
         \E contents \in [1..n -> PageContents(listings)], last \in LastControls(n, max_pages) :
            site = MakeSite(n, contents, last)
    /\ db = {}
    /\ webhook_url \in urls
    /\ rerun = FALSE
    /\ pc = "setup"
    /\ page_count = 0
    /\ vagas_encontradas = <<>>
    /\ lista_de_vagas = <<>>
    /\ vagas_novas = <<>>
    /\ idx = 0
    /\ sucesso_envio = FALSE
    /\ rendererLog = {}
    /\ crawl_error = FALSE
    /\ renderer_failed = FALSE
    /\ attempts = <<>>
    /\ last_call = NoCall
    /\ delivered = {}
    /\ sent_ok = {}
    /\ sent_fail = {}
    /\ db_start = {}
    /\ prev_links = {}
    /\ jobs_rows = <<>>
    /\ write_lock = 0
    /\ inst = [i \in Instances |-> IdleInstance]

\* the page cap the whole script is run with: the site's first page (the
\* crawl over several pages is run by itself, under SpecCrawl)
PipelineCaps == {1}

Init == InitWith(ItemSeqs(PipelineItems, MaxItems), PipelineCaps, WebhookUrls)

\* --------------------------------------------------------- setup_database
\* a setup that drops the table and creates it again
SetupTableFresh(store) == {}

\* lines 26-30: CREATE TABLE IF NOT EXISTS leaves the rows of an existing table
SetupTable(store) == store

\* lines 21-34
SetupDatabase ==
    /\ pc = "setup"
    /\ pc' = "launch"
    /\ db' = SetupTable(db)
    /\ UNCHANGED storeVars
    /\ UNCHANGED <<max_pages, site, webhook_url, rerun>>
    /\ UNCHANGED crawlVars
    /\ UNCHANGED notifyVars
    /\ UNCHANGED histVars

\* ------------------------------------------------------------ scrape_gupy
\* a handler that gives up what was collected
OnExceptionEmpty(acc) == <<>>

\* lines 137-139: what the except clause returns
OnException(acc) == acc

\* the except clause: the function returns and the script goes on at line 193
Raise(rendererCall) ==
    /\ lista_de_vagas' = OnException(vagas_encontradas)
    /\ crawl_error' = TRUE
    /\ renderer_failed' = (renderer_failed \/ rendererCall)
    /\ pc' = "filter"

\* a loop test that is off by one: while page_count < max_pages
LoopPcStrict(pcnt) == IF pcnt < max_pages THEN "wait" ELSE "close"

\* line 77: while page_count <= max_pages
LoopPc(pcnt) == IF pcnt <= max_pages THEN "wait" ELSE "close"

\* lines 71-76: start the browser and open the search URL
Launch ==
    /\ pc = "launch"
    /\ \/ /\ page_count' = 1
          /\ pc' = LoopPc(1)
          /\ rendererLog' = rendererLog \cup {<<1, "goto">>}
          /\ UNCHANGED <<lista_de_vagas, crawl_error, renderer_failed>>
       \/ /\ Raise(TRUE)
          /\ UNCHANGED <<page_count, rendererLog>>
    /\ UNCHANGED storeVars
    /\ UNCHANGED <<max_pages, site, db, webhook_url, rerun, vagas_encontradas>>
    /\ UNCHANGED notifyVars
    /\ UNCHANGED histVars

\* lines 81-82: wait for main#main-content ul, up to 30 s
WaitForSelector ==
    /\ pc = "wait"
    /\ \/ /\ pc' = "content"
          /\ rendererLog' = rendererLog \cup {<<page_count, "wait_for_selector">>}
          /\ UNCHANGED <<lista_de_vagas, crawl_error, renderer_failed>>
       \/ /\ Raise(TRUE)
          /\ UNCHANGED rendererLog
    /\ UNCHANGED storeVars
    /\ UNCHANGED <<max_pages, site, db, webhook_url, rerun, page_count, vagas_encontradas>>
    /\ UNCHANGED notifyVars
    /\ UNCHANGED histVars

\* lines 84-114: take the snapshot, find the list, append the page's records
ExtractPage ==
    /\ pc = "content"
    /\ LET snap == site[page_count] IN
       \/ /\ snap.container = "ok"
          /\ vagas_encontradas' = vagas_encontradas \o ExtractItems(snap.items)
          /\ pc' = "query"
          /\ rendererLog' = rendererLog \cup {<<page_count, "content">>}
          /\ UNCHANGED <<lista_de_vagas, crawl_error, renderer_failed>>
       \/ \* line 88-90: main is there, the list is not: break
          /\ snap.container = "no_ul"
          /\ pc' = "close"
          /\ rendererLog' = rendererLog \cup {<<page_count, "content">>}
          /\ UNCHANGED <<vagas_encontradas, lista_de_vagas, crawl_error, renderer_failed>>
       \/ \* line 86: soup.find('main', ...) is None, and None.find raises
          /\ snap.container = "no_main"
          /\ Raise(FALSE)
          /\ rendererLog' = rendererLog \cup {<<page_count, "content">>}
          /\ UNCHANGED vagas_encontradas
       \/ \* page.content() itself raises
          /\ Raise(TRUE)
          /\ UNCHANGED <<vagas_encontradas, rendererLog>>
    /\ UNCHANGED storeVars
    /\ UNCHANGED <<max_pages, site, db, webhook_url, rerun, page_count>>
    /\ UNCHANGED notifyVars
    /\ UNCHANGED histVars

\* lines 118-124, 131-133: look for the next-page button and whether it is disabled
QueryNext ==
    /\ pc = "query"
    /\ \/ /\ site[page_count].next = "enabled"
          /\ pc' = "click"
          /\ rendererLog' = rendererLog \cup {<<page_count, "query_selector">>}
          /\ UNCHANGED <<lista_de_vagas, crawl_error, renderer_failed>>
       \/ /\ site[page_count].next # "enabled"
          /\ pc' = "close"
          /\ rendererLog' = rendererLog \cup {<<page_count, "query_selector">>}
          /\ UNCHANGED <<lista_de_vagas, crawl_error, renderer_failed>>
       \/ /\ Raise(TRUE)
          /\ UNCHANGED rendererLog
    /\ UNCHANGED storeVars
    /\ UNCHANGED <<max_pages, site, db, webhook_url, rerun, page_count, vagas_encontradas>>
    /\ UNCHANGED notifyVars
    /\ UNCHANGED histVars

\* a loop that forgets to count the page
NextPageCountStuck(pcnt) == pcnt

\* line 127: page_count += 1
NextPageCount(pcnt) == pcnt + 1

\* lines 126-127: click the button, then count the page
ClickNext ==
    /\ pc = "click"
    /\ \/ /\ page_count' = NextPageCount(page_count)
          /\ pc' = "settle"
          /\ rendererLog' = rendererLog \cup {<<page_count, "click">>}
          /\ UNCHANGED <<lista_de_vagas, crawl_error, renderer_failed>>
       \/ /\ Raise(TRUE)
          /\ UNCHANGED <<page_count, rendererLog>>
    /\ UNCHANGED storeVars
    /\ UNCHANGED <<max_pages, site, db, webhook_url, rerun, vagas_encontradas>>
    /\ UNCHANGED notifyVars
    /\ UNCHANGED histVars

\* lines 128-130, then the loop test of line 77
WaitLoadState ==
    /\ pc = "settle"
    /\ \/ /\ pc' = LoopPc(page_count)
          /\ rendererLog' = rendererLog \cup {<<page_count, "wait_for_load_state">>}
          /\ UNCHANGED <<lista_de_vagas, crawl_error, renderer_failed>>
       \/ /\ Raise(TRUE)
          /\ UNCHANGED rendererLog
    /\ UNCHANGED storeVars
    /\ UNCHANGED <<max_pages, site, db, webhook_url, rerun, page_count, vagas_encontradas>>
    /\ UNCHANGED notifyVars
    /\ UNCHANGED histVars

\* lines 135, 141: close the browser and return the accumulated records
CloseBrowser ==
    /\ pc = "close"
    /\ \/ /\ lista_de_vagas' = vagas_encontradas
          /\ pc' = "filter"
          /\ rendererLog' = rendererLog \cup {<<page_count, "close">>}
          /\ UNCHANGED <<crawl_error, renderer_failed>>
       \/ /\ Raise(TRUE)
          /\ UNCHANGED rendererLog
    /\ UNCHANGED storeVars
    /\ UNCHANGED <<max_pages, site, db, webhook_url, rerun, page_count, vagas_encontradas>>
    /\ UNCHANGED notifyVars
    /\ UNCHANGED histVars

\* ------------------------------------------------------------- jobs table
\* lines 37-45: SELECT 1 FROM jobs WHERE link = ?
IsJobInDb(store, link) == link \in store

\* lines 48-56: INSERT OR IGNORE INTO jobs (link) VALUES (?)
AddJobToDb(store, link) == store \cup {link}

\* ---------------------------------------------------------------- notifier
\* lines 144-155: the fixed template around the four fields
FormatDiscordMessage(job) ==
    <<"---\n\n", "**OPAAA - Chegando mais uma vaga fresquinha**\n\n", "**">>
    \o job.title \o <<"**\n", "**Local:** ">> \o job.location
    \o <<"\n", "**Modelo:** ">> \o job.work_model
    \o <<"\n\n", "[Ver vaga](">> \o job.link \o <<")\n\n">>

\* the statuses the webhook answers with in the model: 204 No Content and
\* 429 Too Many Requests
StatusCodes == {204, 429}

\* a check that takes any answer of the server for a success
StatusIsSuccessLax(status) == status >= 200

\* lines 173-180: 204 is the success status
StatusIsSuccess(status) == status = 204

\* a filter that lets every record through
FilterNewAll(records, store) == records

\* lines 193-196: the records whose link is not in the table, in order
FilterNew(records, store) == SelectSeq(records, LAMBDA v : ~IsJobInDb(store, v.link))

\* a commit that does not look at the result of the send
CommitStoreAlways(store, sucesso, link) == AddJobToDb(store, link)

\* lines 212-213: the link is recorded when the send succeeded
CommitStore(store, sucesso, link) == IF sucesso THEN AddJobToDb(store, link) ELSE store

\* lines 193-203: build vagas_novas; with none the script ends
FilterVagas ==
    /\ pc = "filter"
    /\ vagas_novas' = FilterNew(lista_de_vagas, db)
    /\ IF vagas_novas' = <<>>
         THEN pc' = "done" /\ idx' = 0
         ELSE pc' = "send" /\ idx' = 1
    /\ UNCHANGED storeVars
    /\ UNCHANGED <<max_pages, site, db, webhook_url, rerun, sucesso_envio, attempts, last_call,
                   sent_ok, sent_fail>>
    /\ UNCHANGED crawlVars
    /\ UNCHANGED histVars

\* a test that takes every value of the variable for a URL
WebhookMissingNever(url) == FALSE

\* line 160: if not webhook_url
WebhookMissing(url) == url = <<>>

\* lines 207-209 with send_to_discord, lines 158-180
SendToDiscord ==
    /\ pc = "send"
    /\ LET vaga == vagas_novas[idx]
           mensagem_formatada == FormatDiscordMessage(vaga)
           attempt == [link |-> vaga.link, known |-> IsJobInDb(db, vaga.link)]
       IN
       /\ attempts' = Append(attempts, attempt)
       /\ \/ \* lines 160-162: no webhook configured, nothing is posted
             /\ WebhookMissing(webhook_url)
             /\ sucesso_envio' = FALSE
             /\ last_call' = [configured |-> FALSE, posts |-> 0, raised |-> FALSE,
                              status |-> 0, ret |-> FALSE]
             /\ sent_fail' = sent_fail \cup {vaga.link}
             /\ pc' = "commit"
             /\ UNCHANGED <<delivered, sent_ok>>
          \/ \* lines 166-180: one POST, answered with a status
             /\ ~WebhookMissing(webhook_url)
             /\ \E status \in StatusCodes :
                  /\ sucesso_envio' = StatusIsSuccess(status)
                  /\ last_call' = [configured |-> TRUE, posts |-> 1, raised |-> FALSE,
                                   status |-> status, ret |-> StatusIsSuccess(status)]
                  /\ delivered' = IF status = 204 THEN delivered \cup {vaga.link}
                                  ELSE delivered
                  /\ sent_ok' = IF status = 204 THEN sent_ok \cup {vaga.link} ELSE sent_ok
                  /\ sent_fail' = IF status = 204 THEN sent_fail
                                  ELSE sent_fail \cup {vaga.link}
             /\ pc' = "commit"
          \/ \* line 167: requests.post raises (connection refused, DNS, TLS);
             \* nothing catches it and the script ends with a traceback
             /\ ~WebhookMissing(webhook_url)
             /\ last_call' = [configured |-> TRUE, posts |-> 1, raised |-> TRUE,
                              status |-> 0, ret |-> FALSE]
             /\ sent_fail' = sent_fail \cup {vaga.link}
             /\ pc' = "aborted"
             /\ UNCHANGED <<sucesso_envio, delivered, sent_ok>>
    /\ UNCHANGED storeVars
    /\ UNCHANGED <<max_pages, site, db, webhook_url, rerun, vagas_novas, idx, db_start, prev_links>>
    /\ UNCHANGED crawlVars

\* lines 212-216 and the loop step of line 205
CommitAndPace ==
    /\ pc = "commit"
    /\ db' = CommitStore(db, sucesso_envio, vagas_novas[idx].link)
    /\ IF idx < Len(vagas_novas)
         THEN pc' = "send" /\ idx' = idx + 1
         ELSE pc' = "done" /\ UNCHANGED idx
    /\ UNCHANGED storeVars
    /\ UNCHANGED <<max_pages, site, webhook_url, rerun, vagas_novas, sucesso_envio, attempts,
                   last_call, sent_ok, sent_fail>>
    /\ UNCHANGED crawlVars
    /\ UNCHANGED histVars

\* ------------------------------------------------------------ environment
Running == pc \notin {"done", "aborted"}

\* a new process: nothing but jobs.db is carried over
StartRun ==
    /\ rerun' = TRUE
    /\ pc' = "setup"
    /\ page_count' = 0
    /\ vagas_encontradas' = <<>>
    /\ lista_de_vagas' = <<>>
    /\ vagas_novas' = <<>>
    /\ idx' = 0
    /\ sucesso_envio' = FALSE
    /\ rendererLog' = {}
    /\ crawl_error' = FALSE
    /\ renderer_failed' = FALSE
    /\ attempts' = <<>>
    /\ last_call' = NoCall
    /\ sent_ok' = {}
    /\ sent_fail' = {}
    /\ db_start' = db
    /\ prev_links' = Links(lista_de_vagas)
    /\ UNCHANGED storeVars
    /\ UNCHANGED <<max_pages, site, db, webhook_url, delivered>>

\* the process is killed (power loss, SIGKILL) wherever it stands, and the
\* script is invoked again later; what was committed to jobs.db stays
Crash ==
    /\ Running
    /\ StartRun

\* the script ended (normally, or by an uncaught exception) and is invoked again
NextRun ==
    /\ ~Running
    /\ StartRun

Next ==
    \/ SetupDatabase
    \/ Launch
    \/ WaitForSelector
    \/ ExtractPage
    \/ QueryNext
    \/ ClickNext
    \/ WaitLoadState
    \/ CloseBrowser
    \/ FilterVagas
    \/ SendToDiscord
    \/ CommitAndPace
    \/ Crash
    \/ NextRun

Spec == Init /\ [][Next]_vars

\* scrape_gupy and the filter alone, on the sites with malformed items too
InitCrawl ==
    InitWith(CrawlListings, 1..MaxCap, {<<"https://discord.com/api/webhooks/x">>})

NextCrawl ==
    \/ SetupDatabase
    \/ Launch
    \/ WaitForSelector
    \/ ExtractPage
    \/ QueryNext
    \/ ClickNext
    \/ WaitLoadState
    \/ CloseBrowser
    \/ FilterVagas

SpecCrawl == InitCrawl /\ [][NextCrawl]_vars

\* the crawl of a one-page site, over every listing of the extraction items
InitExtract ==
    InitWith(ItemSeqs(ExtractionItems, MaxItems), PipelineCaps,
             {<<"https://discord.com/api/webhooks/x">>})

SpecExtract == InitExtract /\ [][NextCrawl]_vars

\* scrape_gupy is sequential code and every wait of the renderer has a timeout
\* (lines 81, 128): a crawl that has a step to take takes it
SpecCrawlFair == InitCrawl /\ [][NextCrawl]_vars /\ WF_vars(NextCrawl)

\* ------------------------------------------- two instances on one jobs.db
\* The store calls of two invocations of the script running at once on the
\* same jobs.db file.  Table jobs is a sequence of rows here, so that the
\* uniqueness of a link is the work of the INSERT statement and not of the
\* representation.  SQLite lets one connection at a time hold the write lock,
\* from the INSERT to the commit; a connection that finds the lock held waits,
\* and sqlite3.connect's default timeout ends the wait with
\* sqlite3.OperationalError: database is locked.

\* the links the two instances discover
StoreLinks == {NormalizeLink(HrefRel1), NormalizeLink(HrefRel2)}

RowsOf(rows) == {rows[k] : k \in 1..Len(rows)}

\* line 54: INSERT OR IGNORE INTO jobs (link) with link the PRIMARY KEY
InsertOrIgnore(rows, link) == IF link \in RowsOf(rows) THEN rows ELSE Append(rows, link)

InitStore ==
    InitWith({<<>>}, PipelineCaps, {<<"https://discord.com/api/webhooks/x">>})

\* lines 37-45 and 194: the filter's lookup of one discovered link
LookupJob(i) ==
    /\ inst[i].pc = "idle"
    /\ \E link \in StoreLinks :
         \/ \* the link is in the table: the record is dropped
            /\ IsJobInDb(RowsOf(jobs_rows), link)
            /\ inst' = [inst EXCEPT ![i].link = link]
         \/ \* the link is new: the record is delivered, then recorded
            /\ ~IsJobInDb(RowsOf(jobs_rows), link)
            /\ inst' = [inst EXCEPT ![i].pc = "delivered", ![i].link = link]
    /\ UNCHANGED <<jobs_rows, write_lock>>
    /\ UNCHANGED pipelineVars

\* lines 50-54: connect and execute the INSERT
ExecuteInsert(i) ==
    /\ inst[i].pc = "delivered"
    /\ \/ \* the write lock is free: the statement runs in a transaction of its own
          /\ write_lock = 0
          /\ write_lock' = i
          /\ inst' = [inst EXCEPT ![i].pc = "inserted", ![i].seen = jobs_rows,
                                  ![i].pending = InsertOrIgnore(jobs_rows, inst[i].link)]
       \/ \* the other instance holds the lock for longer than the timeout:
          \* execute raises, nothing catches it and the instance ends
          /\ write_lock \notin {0, i}
          /\ inst' = [inst EXCEPT ![i].pc = "raised", ![i].raised = TRUE]
          /\ UNCHANGED write_lock
    /\ UNCHANGED jobs_rows
    /\ UNCHANGED pipelineVars

\* lines 55-56: commit writes the transaction and releases the lock
CommitInsert(i) ==
    /\ inst[i].pc = "inserted"
    /\ write_lock = i
    /\ jobs_rows' = inst[i].pending
    /\ write_lock' = 0
    /\ inst' = [inst EXCEPT ![i].pc = "idle"]
    /\ UNCHANGED pipelineVars

NextStore ==
    \/ \E i \in Instances : LookupJob(i)
    \/ \E i \in Instances : ExecuteInsert(i)
    \/ \E i \in Instances : CommitInsert(i)

SpecStore == InitStore /\ [][NextStore]_vars

\* ------------------------------------------------------------------ claims
AttemptedLinks == {attempts[k].link : k \in 1..Len(attempts)}

DistinctLinks(records) ==
    \A i, j \in 1..Len(records) : i # j => records[i].link # records[j].link

\* the invocation has ended, normally or by an uncaught exception
Ended == pc \in {"done", "aborted"}

\* scrape_gupy has returned
Returned == pc \in {"filter", "send", "commit", "done", "aborted"}

\* C1: at every call of send_to_discord the record's link is not in the jobs
\* table, also when the crawl found the same link in more than one record.
C1_CommittedLinkNeverDelivered ==
    \A k \in 1..Len(attempts) : ~attempts[k].known

\* C2: every link in the jobs table has had a POST answered 204 before, over
\* any sequence of runs and crashes starting from an empty table.
C2_CommitOnlyAfterDelivery == db \subseteq delivered

\* a second run, a link recorded, and another link that was delivered but
\* whose run was killed before the commit
C2_Witness == rerun /\ db # {} /\ delivered \ db # {}

\* C3: when the new records have distinct links, after the run the table has
\* gained exactly the links whose delivery succeeded and holds no link whose
\* delivery failed.
C3_PartialFailureIsolation ==
    (Ended /\ DistinctLinks(vagas_novas)) =>
        /\ db = db_start \cup sent_ok
        /\ sent_ok \cap db_start = {}
        /\ sent_fail \cap db = {}

\* three new records, the second one failed, the first and third are recorded
C3_Witness ==
    /\ pc = "done"
    /\ Len(vagas_novas) = 3
    /\ DistinctLinks(vagas_novas)
    /\ sent_fail = {vagas_novas[2].link}
    /\ db = {vagas_novas[1].link, vagas_novas[3].link}
    /\ db_start = {}

\* C4: once the notification phase has started, the run ends only after a
\* delivery attempt for every new record, whatever each delivery's outcome.
C4_BatchNeverAborted ==
    Ended => (pc = "done" /\ Len(attempts) = Len(vagas_novas))

\* C5: with an endpoint configured, send_to_discord makes exactly one POST
\* and returns True exactly when the status is 204; every other outcome,
\* a network failure included, is returned as False and does not propagate.
C5_DeliverReturnsValue ==
    last_call.configured =>
        /\ last_call.posts = 1
        /\ ~last_call.raised
        /\ last_call.ret <=> (last_call.status = 204)

\* C6: a run that discovers the same links as the run before it, all of them
\* recorded when it starts, makes no delivery attempt and leaves the table
\* as it was.
C6_IdempotentDedup ==
    (rerun /\ Ended /\ Links(lista_de_vagas) = prev_links /\ prev_links \subseteq db_start) =>
        (attempts = <<>> /\ db = db_start)

\* the second run has ended after rediscovering two or more recorded links
C6_Witness ==
    /\ rerun
    /\ pc = "done"
    /\ Links(lista_de_vagas) = prev_links
    /\ prev_links \subseteq db_start
    /\ Cardinality(prev_links) >= 2

\* C7: a link the previous run discovered and left unrecorded, and that this
\* run discovers again, has a delivery attempt in this run.
C7_RetriedNextRun ==
    (rerun /\ Ended) =>
        \A l \in (prev_links \ db_start) \cap Links(lista_de_vagas) : l \in AttemptedLinks

\* C8: on a page whose index has reached max_pages the renderer is asked for
\* nothing about the next page: no query for the control, no click, no wait.
C8_CapWithoutRenderer ==
    \A e \in rendererLog :
        e[1] >= max_pages => e[2] \notin {"query_selector", "click", "wait_for_load_state"}

RECURSIVE RecordsUpTo(_)
\* the records of pages 1..m of the site, in page order
RecordsUpTo(m) ==
    IF m = 0 THEN <<>> ELSE RecordsUpTo(m - 1) \o ExtractItems(site[m].items)

Clicks == Cardinality({e \in rendererLog : e[2] = "click"})

\* the pages whose snapshot was taken and whose records were extracted
PagesExtracted ==
    {k \in 1..Len(site) : <<k, "content">> \in rendererLog /\ site[k].container = "ok"}

\* the site ends within the cap: its last page's control is disabled or absent
EndsWithinCap == site[Len(site)].next # "enabled"

AllContainersOk == \A k \in 1..Len(site) : site[k].container = "ok"

C10_FailureKeepsCollected ==
    /\ [](renderer_failed =>
            /\ Returned
            /\ lista_de_vagas = RecordsUpTo(Cardinality(PagesExtracted))
            /\ (pc # "filter" => vagas_novas = FilterNew(lista_de_vagas, db_start)))
    /\ [][(renderer_failed /\ renderer_failed') => rendererLog' = rendererLog]_vars

\* the settle wait after the click on page 1 failed; page 1's records are
\* returned and are being notified
C10_Witness ==
    /\ renderer_failed
    /\ page_count = 2
    /\ Len(site) >= 2
    /\ <<1, "click">> \in rendererLog
    /\ lista_de_vagas = ExtractItems(site[1].items)
    /\ lista_de_vagas # <<>>
    /\ ExtractItems(site[2].items) # <<>>
    /\ pc = "send"
    /\ vagas_novas = lista_de_vagas

\* C11: with two instances on the same jobs.db, add_job_to_db never raises,
\* an insert of a link that is already in the table leaves the table as the
\* transaction found it, and the table never holds two rows with one link.
C11_AtomicIdempotentInsert ==
    /\ \A i \in Instances : ~inst[i].raised
    /\ \A i \in Instances :
         (inst[i].pc = "inserted" /\ inst[i].link \in RowsOf(inst[i].seen)) =>
             inst[i].pending = inst[i].seen
    /\ \A j, k \in 1..Len(jobs_rows) : j # k => jobs_rows[j] # jobs_rows[k]

\* C12: with DISCORD_WEBHOOK_URL unset the crawl and the filter run as ever,
\* send_to_discord is called for every new record, posts nothing and returns
\* False each time, and the jobs table stays as the run found it.
C12_MissingEndpoint ==
    webhook_url = <<>> =>
        /\ last_call.posts = 0
        /\ delivered = {}
        /\ sent_ok = {}
        /\ sent_fail = AttemptedLinks
        /\ (pc = "commit" => ~sucesso_envio)
        /\ db = db_start
        /\ pc # "aborted"
        /\ (pc = "done" =>
              /\ vagas_novas = FilterNew(lista_de_vagas, db_start)
              /\ Len(attempts) = Len(vagas_novas))
        /\ ((pc = "done" /\ ~crawl_error /\ site[1].container = "ok") =>
              lista_de_vagas = RecordsUpTo(1))

\* a second run without the URL has again reported three failed deliveries
C12_Witness ==
    /\ webhook_url = <<>>
    /\ rerun
    /\ pc = "done"
    /\ Len(attempts) = 3
    /\ Len(lista_de_vagas) = 3
    /\ sent_fail = Links(lista_de_vagas)
    /\ Links(lista_de_vagas) = prev_links
    /\ db = {}

\* the links of the first n records
RECURSIVE LinkSeq(_, _)
LinkSeq(records, n) ==
    IF n = 0 THEN <<>> ELSE Append(LinkSeq(records, n - 1), records[n].link)

\* C13: the calls of send_to_discord in a run are, in order, the discovered
\* records (page order, then document order) whose link was not in the table
\* when the run started: none is reordered or left out, and every call after
\* the first follows the commit-and-sleep step of the call before it.
C13_DeliveryOrder ==
    /\ Returned => lista_de_vagas = RecordsUpTo(Cardinality(PagesExtracted))
    /\ Len(attempts) <= Len(FilterNew(lista_de_vagas, db_start))
    /\ LinkSeq(attempts, Len(attempts)) =
           LinkSeq(FilterNew(lista_de_vagas, db_start), Len(attempts))
    /\ (pc = "send" => Len(attempts) = idx - 1)
    /\ (pc = "commit" => Len(attempts) = idx)
    /\ (Ended => Len(attempts) = Len(FilterNew(lista_de_vagas, db_start)))

\* a URL that starts with a scheme: http:// or https:// and a host, or mailto:
HasScheme(s) ==
    /\ Len(s) >= 1
    /\ \/ s[1] = "mailto:"
       \/ s[1] = "http" /\ Len(s) >= 2 /\ s[2] \in {"s://portal.gupy.io", "://portal.gupy.io"}

\* the <li> items of page 1 that pass the test of line 100, in document order
WellFormedItems == SelectSeq(site[1].items, WellFormed)

\* page 1's snapshot was taken and its items were gone through
Page1Extracted == 1 \in PagesExtracted

\* C14: the link of every record is an absolute URL: the href itself when it
\* starts with a scheme, and "https://portal.gupy.io" followed by the href
\* when it does not.
C14_LinkNormalization ==
    Page1Extracted =>
        /\ Len(vagas_encontradas) = Len(WellFormedItems)
        /\ \A k \in 1..Len(WellFormedItems) :
             LET href == WellFormedItems[k].a[1][1]
                 link == vagas_encontradas[k].link
             IN /\ HasScheme(link)
                /\ HasScheme(href) => link = href
                /\ ~HasScheme(href) => link = BaseOrigin \o href

\* C15: the records of a page are those of its items that have an h3 and an
\* anchor with an href, one per item and in document order, each with the
\* fields of its own item; the other items are passed over without an exception.
C15_MalformedItemSkip ==
    Page1Extracted =>
        /\ Len(vagas_encontradas) = Len(WellFormedItems)
        /\ \A k \in 1..Len(WellFormedItems) : vagas_encontradas[k] = VagaData(WellFormedItems[k])
        /\ ~renderer_failed => ~crawl_error

\* a page of three items whose second one has no href: two records, in order
C15_Witness ==
    /\ Page1Extracted
    /\ pc = "query"
    /\ ~crawl_error
    /\ site[1].items = <<ItemDev1, ItemNoHref, ItemDev2>>
    /\ Len(vagas_encontradas) = 2
    /\ vagas_encontradas[1].title = <<"Dev Python">>
    /\ vagas_encontradas[2].title = <<"Data Engineer">>

\* C16: every record has its four fields, each one a string; an item with
\* title and link whose location or work-model element is missing is
\* extracted all the same, with "Nao informado" in that field.
C16_MissingFieldTolerance ==
    Page1Extracted =>
        /\ Len(vagas_encontradas) = Len(WellFormedItems)
        /\ \A k \in 1..Len(WellFormedItems) :
             LET it == WellFormedItems[k]
                 rec == vagas_encontradas[k]
             IN /\ DOMAIN rec = {"title", "link", "location", "work_model"}
                /\ \A f \in DOMAIN rec : rec[f] \in Seq(STRING)
                /\ it.location = <<>> => rec.location = NaoInformado
                /\ it.work_model = <<>> => rec.work_model = NaoInformado
                /\ it.location # <<>> => rec.location = GetTextStrip(it.location[1])
                /\ it.work_model # <<>> => rec.work_model = GetTextStrip(it.work_model[1])

\* an item with neither element, then one with a work model and no location
C16_Witness ==
    /\ Page1Extracted
    /\ site[1].items = <<ItemDev2, ItemDev1b>>
    /\ Len(vagas_encontradas) = 2
    /\ vagas_encontradas[1].location = NaoInformado
    /\ vagas_encontradas[1].work_model = NaoInformado
    /\ vagas_encontradas[2].location = NaoInformado
    /\ vagas_encontradas[2].work_model = <<"Hibrido">>

\* the snapshots page.content() returned in this run
SnapshotsTaken == {e \in rendererLog : e[2] = "content"}

\* C17: whatever the site and the renderer do, scrape_gupy returns; it takes
\* the snapshot of at most max_pages pages, none of them beyond page
\* max_pages; page_count starts at 1 and changes only by growing.
C17_BoundedCrawl ==
    /\ <>Returned
    /\ [](/\ Cardinality(SnapshotsTaken) <= max_pages
          /\ \A e \in SnapshotsTaken : e[1] \in 1..max_pages)
    /\ [][/\ page_count' >= page_count
          /\ (page_count = 0 /\ page_count' # 0) => page_count' = 1]_vars

\* a site that goes on beyond a cap of three pages: three snapshots, three
\* clicks, and the loop ended by the cap
C17_Witness ==
    /\ pc = "filter"
    /\ ~crawl_error
    /\ max_pages = MaxCap
    /\ Len(site) = MaxCap
    /\ site[MaxCap].next = "enabled"
    /\ page_count = MaxCap + 1
    /\ Cardinality(SnapshotsTaken) = MaxCap
    /\ Clicks = MaxCap

\* the run is before its notification loop: setup, crawl or filter
BeforeNotification ==
    pc \in {"setup", "launch", "wait", "content", "query", "click", "settle", "close", "filter"}

\* C18: from the start of a run until its filter is done the jobs table is as
\* the run found it, however the crawl went; the table changes only in the
\* notification loop, by the whole link of the record just delivered.
C18_CrawlNeverWritesStore ==
    /\ [](BeforeNotification => db = db_start)
    /\ [][db' # db =>
            /\ pc = "commit"
            /\ sucesso_envio
            /\ vagas_novas[idx].link \in Links(lista_de_vagas)
            /\ db' = db \cup {vagas_novas[idx].link}]_vars

\* a later run whose crawl broke after page 1's records were collected: the
\* table still holds what the earlier run recorded, and nothing else
C18_Witness ==
    /\ rerun
    /\ pc = "filter"
    /\ crawl_error
    /\ renderer_failed
    /\ lista_de_vagas # <<>>
    /\ db # {}
    /\ db = db_start

\* C19: when the snapshot of a page holds no main#main-content, or no list in
\* it, and no renderer call failed, scrape_gupy has not gone through its
\* except clause, and what it returns is the records of the pages before.
C19_AbsentContainerNotError ==
    \A k \in 1..Len(site) :
        (<<k, "content">> \in rendererLog /\ site[k].container # "ok" /\ ~renderer_failed) =>
            /\ ~crawl_error
            /\ Returned => lista_de_vagas = RecordsUpTo(k - 1)

====
